---- MODULE Spec2Model ----
(***************************************************************************)
(* Model of the Minecraft wiki item scraper (src/main.py).                 *)
(*                                                                         *)
(* Text is a sequence of one-character strings, so that strip(), the       *)
(* substring test and the regular expression are computed character by     *)
(* character.  An HTML element's content is the sequence of its text       *)
(* nodes; a page is what BeautifulSoup's find_all returns for it.          *)
(***************************************************************************)
EXTENDS Integers, Sequences, FiniteSets, TLC

\* ------------------------------------------------------------------ text

\* Python's None and an optional value: <<>> is None, <<x>> holds x.
None == <<>>
Some(x) == <<x>>

Whitespace == {" ", "\n", "\t"}
Digits == <<"0", "1", "2", "3", "4", "5", "6", "7", "8", "9">>
IsDigit(c) == \E d \in 1..Len(Digits) : Digits[d] = c
DigitVal(c) == (CHOOSE d \in 1..Len(Digits) : Digits[d] = c) - 1

RECURSIVE LStrip(_)
LStrip(s) ==
    IF s # <<>> /\ Head(s) \in Whitespace THEN LStrip(Tail(s)) ELSE s

RECURSIVE RStrip(_)
RStrip(s) ==
    IF s # <<>> /\ s[Len(s)] \in Whitespace
    THEN RStrip(SubSeq(s, 1, Len(s) - 1))
    ELSE s

\* str.strip()
Strip(s) == RStrip(LStrip(s))

\* Tag.get_text(strip=True): every text node stripped, the empty ones
\* dropped, the rest joined with the empty separator.
RECURSIVE get_text(_)
get_text(nodes) ==
    IF nodes = <<>> THEN <<>>
    ELSE Strip(Head(nodes)) \o get_text(Tail(nodes))

\* pat in s
Contains(s, pat) ==
    \E i \in 1..(Len(s) - Len(pat) + 1) : SubSeq(s, i, i + Len(pat) - 1) = pat

\* The longest run of digits of s that starts at position i.
RECURSIVE DigitRun(_, _)
DigitRun(s, i) ==
    IF i <= Len(s) /\ IsDigit(s[i])
    THEN <<s[i]>> \o DigitRun(s, i + 1)
    ELSE <<>>

\* \((\d+)\) matches at position i: "(", one or more digits, ")".
MatchAt(s, i) ==
    /\ s[i] = "("
    /\ LET d == DigitRun(s, i + 1)
       IN  /\ d # <<>>
           /\ i + Len(d) + 1 <= Len(s)
           /\ s[i + Len(d) + 1] = ")"

\* re.search(r'\((\d+)\)', s) from position i on: group(1) of the leftmost
\* match, None when there is none.
RECURSIVE re_search(_, _)
re_search(s, i) ==
    IF i > Len(s) THEN None
    ELSE IF MatchAt(s, i) THEN Some(DigitRun(s, i + 1))
    ELSE re_search(s, i + 1)

\* int(d) of a string of decimal digits
RECURSIVE int(_)
int(d) ==
    IF d = <<>> THEN 0
    ELSE int(SubSeq(d, 1, Len(d) - 1)) * 10 + DigitVal(d[Len(d)])

Stackable == <<"S", "t", "a", "c", "k", "a", "b", "l", "e">>
Yes == <<"Y", "e", "s">>
JE == <<"J", "E">>
BE == <<"B", "E">>
Origin == <<"h", "t", "t", "p", "s", ":", "/", "/", "m", "i", "n", "e", "c",
            "r", "a", "f", "t", ".", "w", "i", "k", "i">>

HTTP_OK == 200
DefaultStack == 1
YesStack == 64
max_workers == 3

\* ------------------------------------------------------ detail extractor

\* A detail page is the sequence of its tables of class infobox-rows, a
\* table the sequence of its tr rows, a row [th, td]: the content of its
\* first th and of its first td, None where the row has none.

\* The value of a Stackable row's value cell (lines 59-64).
stack_of_text(text) ==
    IF Contains(text, Yes)
    THEN LET match == re_search(text, 1)
         IN  IF match # None THEN int(match[1]) ELSE YesStack
    ELSE DefaultStack

\* Mutant of scan_rows: a Stackable row without a value cell ends the search
\* with the default.
RECURSIVE scan_rows_first_header(_)
scan_rows_first_header(rows) ==
    IF rows = <<>> THEN None
    ELSE LET row == Head(rows)
         IN  IF row.th # None /\ get_text(row.th[1]) = Stackable
             THEN IF row.td # None
                  THEN Some(stack_of_text(get_text(row.td[1])))
                  ELSE Some(DefaultStack)
             ELSE scan_rows_first_header(Tail(rows))

\* for row in table.find_all('tr') (lines 54-64): Some(n) when a row
\* returns n, None when the loop ends without returning.
RECURSIVE scan_rows(_)
scan_rows(rows) ==
    IF rows = <<>> THEN None
    ELSE LET row == Head(rows)
         IN  IF /\ row.th # None
                /\ get_text(row.th[1]) = Stackable
                /\ row.td # None
             THEN Some(stack_of_text(get_text(row.td[1])))
             ELSE scan_rows(Tail(rows))

\* for table in infobox_tables (lines 53-65)
RECURSIVE scan_tables(_)
scan_tables(tables) ==
    IF tables = <<>> THEN DefaultStack
    ELSE LET r == scan_rows(Head(tables))
         IN  IF r # None THEN r[1] ELSE scan_tables(Tail(tables))

\* A response of session.get: kind "response" carries a status code and a
\* page; kind "exception" and "timeout" are a request that raised (the
\* timeout of 10 s raises requests.Timeout).
Failed(kind) == [kind |-> kind, status_code |-> 0, page |-> <<>>]
Response(code, page) == [kind |-> "response", status_code |-> code, page |-> page]

\* A server that never answers, and a call of session.get that never
\* returns.
Silent == Failed("silent")
Hang == Failed("hang")
\* Line 45: timeout=10; line 87: no timeout.
DetailTimeout == 10
ListingTimeout == None
\* session.get(url, timeout=...) of a server that answers with `answer`: the
\* wait for a server that never answers ends with requests' Timeout when a
\* timeout was given, and does not end otherwise.
session_get(answer, timeout) ==
    IF answer.kind # "silent" THEN answer
    ELSE IF timeout = None THEN Hang
    ELSE Failed("timeout")

\* Mutant of get_stackable_info: a failed request counted as stackable.
get_stackable_info_default64(r) ==
    IF r.kind # "response" THEN YesStack
    ELSE IF r.status_code # HTTP_OK THEN YesStack
    ELSE scan_tables(r.page)

get_stackable_info(r) ==
    IF r.kind # "response" THEN DefaultStack          \* except Exception
    ELSE IF r.status_code # HTTP_OK THEN DefaultStack \* line 46
    ELSE scan_tables(r.page)

\* ----------------------------------------------------- listing extractor

\* A listing page is the sequence of its div elements of class div-col, a
\* div the sequence of its a elements, an a element [text, href]: its text
\* nodes and its href attribute, None when it has none.

\* Mutant of scan_links: every text that contains "JE" or "BE" is skipped.
RECURSIVE scan_links_contains(_)
scan_links_contains(links) ==
    IF links = <<>> THEN <<>>
    ELSE LET link == Head(links)
             item_name == get_text(link.text)
         IN  IF link.href = None THEN scan_links_contains(Tail(links))
             ELSE IF item_name = <<>> THEN scan_links_contains(Tail(links))
             ELSE IF Contains(item_name, JE) THEN scan_links_contains(Tail(links))
             ELSE IF Contains(item_name, BE) THEN scan_links_contains(Tail(links))
             ELSE <<[name |-> item_name, url |-> Origin \o link.href[1]]>>
                  \o scan_links_contains(Tail(links))

\* for link in div.find_all('a', href=True) (lines 97-107)
RECURSIVE scan_links(_)
scan_links(links) ==
    IF links = <<>> THEN <<>>
    ELSE LET link == Head(links)
             item_name == get_text(link.text)
         IN  IF link.href = None THEN scan_links(Tail(links))
             ELSE IF item_name = <<>> THEN scan_links(Tail(links))
             ELSE IF item_name = JE THEN scan_links(Tail(links))
             ELSE IF item_name = BE THEN scan_links(Tail(links))
             ELSE <<[name |-> item_name, url |-> Origin \o link.href[1]]>>
                  \o scan_links(Tail(links))

\* Mutant of extract_candidates: a candidate whose url is already in the
\* list is not added.
RECURSIVE dedup_by_url(_, _)
dedup_by_url(cands, seen) ==
    IF cands = <<>> THEN <<>>
    ELSE IF Head(cands).url \in seen THEN dedup_by_url(Tail(cands), seen)
    ELSE <<Head(cands)>> \o dedup_by_url(Tail(cands), seen \cup {Head(cands).url})
RECURSIVE concat_links(_)
concat_links(div_cols) ==
    IF div_cols = <<>> THEN <<>>
    ELSE scan_links(Head(div_cols)) \o concat_links(Tail(div_cols))
extract_candidates_dedup(div_cols) == dedup_by_url(concat_links(div_cols), {})

\* for div in div_cols (lines 95-107)
RECURSIVE extract_candidates(_)
extract_candidates(div_cols) ==
    IF div_cols = <<>> THEN <<>>
    ELSE scan_links(Head(div_cols)) \o extract_candidates(Tail(div_cols))

\* ------------------------------------------------------------ the inputs

Stick == <<"S", "t", "i", "c", "k">>
InkSac == <<"I", "n", "k", " ", "S", "a", "c">>
Sword == <<"D", "i", "a", "m", "o", "n", "d", " ", "S", "w", "o", "r", "d">>
HrefStick == <<"/", "w", "/", "S", "t", "i", "c", "k">>
HrefInk == <<"/", "w", "/", "I", "n", "k", "_", "S", "a", "c">>
HrefSword == <<"/", "w", "/", "D", "i", "a", "m", "o", "n", "d", "_", "S", "w", "o", "r", "d">>
HrefEd == <<"/", "w", "/", "E", "d">>

A(text, href) == [text |-> text, href |-> href]
aStick == A(<<Stick>>, Some(HrefStick))
aInk == A(<<<<" ">> \o InkSac \o <<"\n">>>>, Some(HrefInk))
aSword == A(<<Sword>>, Some(HrefSword))
aSticks == A(<<Stick \o <<"s">>>>, Some(HrefStick))
aEmpty == A(<<>>, Some(HrefStick))
aBlank == A(<<<<" ", "\n">>>>, Some(HrefInk))
aJE == A(<<JE>>, Some(HrefEd))
aJEsplit == A(<<<<"J">>, <<" ", "E">>>>, Some(HrefEd))
aBE == A(<<<<" ">> \o BE>>, Some(HrefEd))
aJEB == A(<<JE \o <<"B">>>>, Some(HrefEd))
aNoHref == A(<<Sword>>, None)

R(th, td) == [th |-> th, td |-> td]
T(text) == Some(<<text>>)
Paren(d) == <<"(">> \o d \o <<")">>
thStackable == Some(<<<<"\n", " ">> \o Stackable \o <<" ">>>>)
thOther == T(<<"R", "a", "r", "i", "t", "y">>)
No == <<"N", "o">>
YesN(d) == Yes \o <<" ">> \o Paren(d)

\* The detail pages a run's requests may be answered with.
PageYes16 == <<<<R(thOther, T(No)), R(thStackable, T(YesN(<<"1", "6">>)))>>>>
PageYes0 == <<<<R(thStackable, T(YesN(<<"0">>)))>>>>

RunResponses ==
    {Failed("exception"), Silent, Response(404, <<>>)}
        \cup {Response(HTTP_OK, p) : p \in {PageYes16, PageYes0}}

\* The listing pages a run may be answered with: no container; the four
\* links of which one is an item; two items; four items in two containers,
\* three of them links to the same page, one more than the pool has workers.
RunListings ==
    { <<>>,
      <<<<aEmpty, aJE, aBE, aSword>>>>,
      <<<<aStick, aInk>>>>,
      <<<<aStick, aJE, aInk>>, <<aSticks, aStick>>>> }
ListingResponses ==
    {Failed("exception"), Silent, Response(404, <<>>)}
        \cup {Response(HTTP_OK, p) : p \in RunListings}

\* KeyboardInterrupts delivered to the main thread in one run.
MaxSignals == 2

\* ------------------------------------------------------------- the state

VARIABLES
    pc,           \* where the main thread is
    listing_result, \* history: how the listing request ended
    exc,          \* a KeyboardInterrupt is propagating / being handled
    item_tuples,  \* main's list of candidates
    fut,          \* per candidate: its future and, while it runs, where
                  \* fetch_item_data is
    resp,         \* history, per candidate: how its request ended, "none"
                  \* before, then "ok" (a page with status 200) or "failed"
    stack_size,   \* per candidate: fetch_item_data's local
    data_lock,    \* 0 when free, else the candidate whose worker holds it
    items_data,   \* the global list of records
    origin,       \* history: the candidate each record of items_data is of
    file,         \* None: output_file not written; Some(records) otherwise
    save_pos,     \* json.dump's position in items_data
    saves,        \* history: calls of save_data
    signals,      \* history: KeyboardInterrupts delivered
    kAtSignal,    \* history: len(items_data) when an interruption arrived
                  \* while main waited for the results, -1 otherwise
    input,        \* the extractor specifications: the page
    output        \* the extractor specifications: the result

vars == <<pc, listing_result, exc, item_tuples, fut, resp, stack_size, data_lock, items_data,
          origin, file, save_pos, saves, signals, kAtSignal, input, output>>

Cands == 1..Len(item_tuples)
Running == {"get", "sleep", "lock", "append", "release"}
Busy == Cardinality({i \in Cands : fut[i] \in Running})
\* Mutant of Joined: the pool left without waiting, shutdown(wait=False).
Joined_nowait == TRUE

\* Every worker thread has left its loop: the queue is drained (a cancelled
\* work item is dropped when a worker takes it) and no work item runs.
Joined == \A i \in Cands : fut[i] \in {"new", "finished", "cancelled"}

Init ==
    /\ pc = "get_listing"
    /\ listing_result = "none"
    /\ exc = FALSE
    /\ item_tuples = <<>>
    /\ fut = <<>>
    /\ resp = <<>>
    /\ stack_size = <<>>
    /\ data_lock = 0
    /\ items_data = <<>>
    /\ origin = <<>>
    /\ file = None
    /\ save_pos = 0
    /\ saves = 0
    /\ signals = 0
    /\ kAtSignal = -1
    /\ input = None
    /\ output = None

\* ----------------------------------------------------------- main thread

\* Mutant of bad_status: only a server error aborts the run.
bad_status_5xx(r) == r.status_code >= 500

\* Line 88: response.status_code != 200
bad_status(r) == r.status_code # HTTP_OK

\* Lines 87-110: the listing request (no timeout), the status check, the
\* extraction of item_tuples.  An exception of session.get is not caught
\* in main: the run ends with a traceback.  When the server never answers
\* the main thread stays in session.get: pc "blocked".
main_listing ==
    /\ pc = "get_listing"
    /\ \E answer \in ListingResponses :
          LET r == session_get(answer, ListingTimeout) IN
          IF r.kind = "hang"
          THEN /\ pc' = "blocked"
               /\ UNCHANGED <<listing_result, item_tuples, fut, resp, stack_size>>
          ELSE IF r.kind # "response"
          THEN /\ pc' = "listing_error"
               /\ listing_result' = r.kind
               /\ UNCHANGED <<item_tuples, fut, resp, stack_size>>
          ELSE IF bad_status(r)
          THEN /\ pc' = "aborted"
               /\ listing_result' = "status"
               /\ UNCHANGED <<item_tuples, fut, resp, stack_size>>
          ELSE LET found == extract_candidates(r.page)
               IN  /\ pc' = "map_submit"
                   /\ listing_result' = IF r.status_code = HTTP_OK
                                        THEN "ok" ELSE "status"
                   /\ item_tuples' = found
                   /\ fut' = [i \in 1..Len(found) |-> "new"]
                   /\ resp' = [i \in 1..Len(found) |-> "none"]
                   /\ stack_size' = [i \in 1..Len(found) |-> 0]
    /\ UNCHANGED <<exc, data_lock, items_data, origin, file, save_pos, saves,
                   signals, kAtSignal, input, output>>

\* Line 115, executor.map: every candidate is submitted, in order, before
\* the first result is waited for.
NextNew == CHOOSE i \in Cands : fut[i] = "new" /\ \A j \in 1..(i - 1) : fut[j] # "new"
map_submit ==
    /\ pc = "map_submit"
    /\ IF \E i \in Cands : fut[i] = "new"
       THEN /\ fut' = [fut EXCEPT ![NextNew] = "pending"]
            /\ pc' = pc
       ELSE /\ pc' = "map_results"
            /\ fut' = fut
    /\ UNCHANGED <<listing_result, exc, item_tuples, resp, stack_size, data_lock, items_data,
                   origin, file, save_pos, saves, signals, kAtSignal, input,
                   output>>

\* Line 115, list(tqdm(...)): the main thread waits in Future.result() for
\* each future in turn, until the last one has finished.
map_results ==
    /\ pc = "map_results"
    /\ \A i \in Cands : fut[i] = "finished"
    /\ pc' = "shutdown"
    /\ UNCHANGED <<listing_result, exc, item_tuples, fut, resp, stack_size, data_lock,
                   items_data, origin, file, save_pos, saves, signals,
                   kAtSignal, input, output>>

\* Line 114, the with statement's exit: executor.shutdown(wait=True) joins
\* the worker threads, on the normal path and while a KeyboardInterrupt
\* propagates alike; then line 121 or the handler of line 116 follows.
shutdown ==
    /\ pc = "shutdown"
    /\ Joined
    /\ pc' = "save_data"
    /\ UNCHANGED <<listing_result, exc, item_tuples, fut, resp, stack_size, data_lock,
                   items_data, origin, file, save_pos, saves, signals,
                   kAtSignal, input, output>>

\* Lines 39-40: open(output_file, 'w') truncates the file; json.dump then
\* walks items_data.
save_data ==
    /\ pc = "save_data"
    /\ pc' = "dump"
    /\ file' = Some(<<>>)
    /\ save_pos' = 0
    /\ saves' = saves + 1
    /\ UNCHANGED <<listing_result, exc, item_tuples, fut, resp, stack_size, data_lock,
                   items_data, origin, signals, kAtSignal, input, output>>

\* Mutant of after_save: the handler without its return, falling through to
\* line 121.
after_save_fallthrough == IF exc THEN "save_data" ELSE "finished"

\* Where main goes when save_data returns: line 119 (return) in the
\* handler, line 122 and the end after line 121.
after_save == IF exc THEN "interrupted" ELSE "finished"

\* Line 40, json.dump(items_data, f, indent=4): the encoder iterates over
\* the list as it is when each element is reached; line 41 at its end.
dump ==
    /\ pc = "dump"
    /\ IF save_pos < Len(items_data)
       THEN /\ file' = Some(Append(file[1], items_data[save_pos + 1]))
            /\ save_pos' = save_pos + 1
            /\ pc' = pc
       ELSE /\ pc' = after_save
            /\ UNCHANGED <<file, save_pos>>
    /\ UNCHANGED <<listing_result, exc, item_tuples, fut, resp, stack_size, data_lock,
                   items_data, origin, saves, signals, kAtSignal, input,
                   output>>

\* The futures a KeyboardInterrupt raised in Future.result() cancels on its
\* way out of executor.map's iterator: those no worker has taken.
cancel_pending == [i \in Cands |-> IF fut[i] = "pending" THEN "cancelled" ELSE fut[i]]

\* Mutant of KeyboardInterrupt: the interruption goes to the handler at
\* once, the with statement's exit waiting for no worker.
KeyboardInterrupt_nojoin ==
    /\ signals < MaxSignals
    /\ pc \in {"get_listing", "blocked", "map_submit", "map_results",
               "shutdown", "save_data", "dump"}
    /\ signals' = signals + 1
    /\ IF pc \in {"map_submit", "map_results", "shutdown"}
       THEN /\ pc' = "save_data"
            /\ exc' = TRUE
            /\ fut' = IF pc = "map_results" THEN cancel_pending ELSE fut
       ELSE /\ pc' = "crashed"
            /\ UNCHANGED <<exc, fut>>
    /\ kAtSignal' = IF pc = "map_results" THEN Len(items_data) ELSE kAtSignal
    /\ UNCHANGED <<listing_result, item_tuples, resp, stack_size, data_lock,
                   items_data, origin, file, save_pos, saves, input, output>>

\* A KeyboardInterrupt reaches the main thread.  Outside the try statement
\* (lines 87-110, 121-122) and inside the handler nothing catches it.  In
\* the try statement it leaves the with block, whose exit joins the
\* workers: raised while the candidates are being submitted it cancels
\* nothing, raised in Future.result() it cancels the pending futures, and
\* raised in the join it ends the wait and reaches the handler at once.
\* (Raised between two results, outside Future.result(), it cancels nothing
\* either: the workers run while the candidates are submitted, so the
\* interruptions of map_submit reach these states too.)
KeyboardInterrupt ==
    /\ signals < MaxSignals
    /\ pc \in {"get_listing", "blocked", "map_submit", "map_results",
               "shutdown", "save_data", "dump"}
    /\ signals' = signals + 1
    /\ IF pc \in {"map_submit", "map_results"}
       THEN /\ pc' = "shutdown"
            /\ exc' = TRUE
            /\ fut' = IF pc = "map_results" THEN cancel_pending ELSE fut
       ELSE IF pc = "shutdown"
       THEN /\ pc' = "save_data"
            /\ exc' = TRUE
            /\ fut' = fut
       ELSE /\ pc' = "crashed"
            /\ UNCHANGED <<exc, fut>>
    /\ kAtSignal' = IF pc = "map_results" THEN Len(items_data) ELSE kAtSignal
    /\ UNCHANGED <<listing_result, item_tuples, resp, stack_size, data_lock,
                   items_data, origin, file, save_pos, saves, input, output>>

\* --------------------------------------------------------------- workers

\* The max_workers threads of the pool are interchangeable: a worker is
\* idle when fewer than max_workers work items run.  The work queue is
\* first in, first out.

\* Mutant of Take: a thread for every work item, however many run.
Take_unbounded(i) ==
    /\ fut[i] = "pending"
    /\ \A j \in 1..(i - 1) : fut[j] # "pending"
    /\ fut' = [fut EXCEPT ![i] = "get"]
    /\ UNCHANGED <<pc, listing_result, exc, item_tuples, resp, stack_size,
                   data_lock, items_data, origin, file, save_pos, saves,
                   signals, kAtSignal, input, output>>

\* A worker takes the next work item and calls fetch_item_data (line 72):
\* the request of line 45 is in flight.
Take(i) ==
    /\ fut[i] = "pending"
    /\ \A j \in 1..(i - 1) : fut[j] # "pending"
    /\ Busy < max_workers
    /\ fut' = [fut EXCEPT ![i] = "get"]
    /\ UNCHANGED <<pc, listing_result, exc, item_tuples, resp, stack_size, data_lock,
                   items_data, origin, file, save_pos, saves, signals,
                   kAtSignal, input, output>>

\* A detail request that raised, timed out or was answered with a status
\* other than 200.
failed_request(r) == r.kind # "response" \/ r.status_code # HTTP_OK

\* Mutant of GetInfo: no delay after a request that failed.
GetInfo_nodelay(i) ==
    /\ fut[i] = "get"
    /\ \E answer \in RunResponses :
          LET r == session_get(answer, Some(DetailTimeout)) IN
          /\ resp' = [resp EXCEPT ![i] = IF failed_request(r) THEN "failed" ELSE "ok"]
          /\ stack_size' = [stack_size EXCEPT ![i] = get_stackable_info(r)]
          /\ fut' = [fut EXCEPT ![i] = IF failed_request(r) THEN "lock" ELSE "sleep"]
    /\ UNCHANGED <<pc, listing_result, exc, item_tuples, data_lock, items_data,
                   origin, file, save_pos, saves, signals, kAtSignal, input,
                   output>>

\* Lines 45-68 and 72: the request is answered, fails or times out, and
\* get_stackable_info returns the stack size.
GetInfo(i) ==
    /\ fut[i] = "get"
    /\ \E answer \in RunResponses :
          LET r == session_get(answer, Some(DetailTimeout)) IN
          /\ resp' = [resp EXCEPT ![i] = IF failed_request(r) THEN "failed" ELSE "ok"]
          /\ stack_size' = [stack_size EXCEPT ![i] = get_stackable_info(r)]
    /\ fut' = [fut EXCEPT ![i] = "sleep"]
    /\ UNCHANGED <<pc, listing_result, exc, item_tuples, data_lock, items_data, origin, file,
                   save_pos, saves, signals, kAtSignal, input, output>>

\* Line 74: time.sleep(0.2) returns.
Sleep(i) ==
    /\ fut[i] = "sleep"
    /\ fut' = [fut EXCEPT ![i] = "lock"]
    /\ UNCHANGED <<pc, listing_result, exc, item_tuples, resp, stack_size, data_lock,
                   items_data, origin, file, save_pos, saves, signals,
                   kAtSignal, input, output>>

\* Mutant of Acquire: the append entered without waiting for the lock.
Acquire_nowait(i) ==
    /\ fut[i] = "lock"
    /\ data_lock' = i
    /\ fut' = [fut EXCEPT ![i] = "append"]
    /\ UNCHANGED <<pc, listing_result, exc, item_tuples, resp, stack_size,
                   items_data, origin, file, save_pos, saves, signals,
                   kAtSignal, input, output>>

\* Line 78: with data_lock acquires the lock.
Acquire(i) ==
    /\ fut[i] = "lock"
    /\ data_lock = 0
    /\ data_lock' = i
    /\ fut' = [fut EXCEPT ![i] = "append"]
    /\ UNCHANGED <<pc, listing_result, exc, item_tuples, resp, stack_size, items_data, origin,
                   file, save_pos, saves, signals, kAtSignal, input, output>>

\* Mutant of item_entry: the tuple's fields mixed up, the url as the item.
item_entry_url(i) == [item |-> item_tuples[i].url, stack |-> stack_size[i]]

\* Mutant of AppendEntry: the record put at the head of the list.
AppendEntry_front(i) ==
    /\ fut[i] = "append"
    /\ items_data' = <<[item |-> item_tuples[i].name, stack |-> stack_size[i]]>>
                         \o items_data
    /\ origin' = <<i>> \o origin
    /\ fut' = [fut EXCEPT ![i] = "release"]
    /\ UNCHANGED <<pc, listing_result, exc, item_tuples, resp, stack_size,
                   data_lock, file, save_pos, saves, signals, kAtSignal,
                   input, output>>

\* Lines 76 and 79: the record is appended.
item_entry(i) == [item |-> item_tuples[i].name, stack |-> stack_size[i]]
AppendEntry(i) ==
    /\ fut[i] = "append"
    /\ items_data' = Append(items_data, item_entry(i))
    /\ origin' = Append(origin, i)
    /\ fut' = [fut EXCEPT ![i] = "release"]
    /\ UNCHANGED <<pc, listing_result, exc, item_tuples, resp, stack_size, data_lock, file,
                   save_pos, saves, signals, kAtSignal, input, output>>

\* Lines 79-81: the with block releases the lock and fetch_item_data
\* returns: the future is finished.
Release(i) ==
    /\ fut[i] = "release"
    /\ data_lock' = 0
    /\ fut' = [fut EXCEPT ![i] = "finished"]
    /\ UNCHANGED <<pc, listing_result, exc, item_tuples, resp, stack_size, items_data, origin,
                   file, save_pos, saves, signals, kAtSignal, input, output>>

fetch_item_data ==
    \E i \in Cands :
        \/ Take(i)
        \/ GetInfo(i)
        \/ Sleep(i)
        \/ Acquire(i)
        \/ AppendEntry(i)
        \/ Release(i)

Next ==
    \/ main_listing
    \/ map_submit
    \/ map_results
    \/ shutdown
    \/ save_data
    \/ dump
    \/ KeyboardInterrupt
    \/ fetch_item_data

Spec == Init /\ [][Next]_vars

\* --------------------------------------------- the extractors on their own

\* The elements of a page, drawn from a list by their places in it.
Drawn(list, ix) == [k \in 1..Len(ix) |-> list[ix[k]]]
\* The elements in one container (k past the end) or split over two, the
\* first k in the first.
Layout(elems, k) ==
    IF k > Len(elems) THEN <<elems>>
    ELSE <<SubSeq(elems, 1, k), SubSeq(elems, k + 1, Len(elems))>>

\* Rows of a detail page, in one table or split over two.
MaxRows == 2
ValueCells ==
    << None,
       T(YesN(<<"1", "6">>)),
       T(Yes),
       T(No),
       T(YesN(<<"0">>)),
       T(Paren(<<"3", "2">>) \o <<" ">> \o Yes),
       T(YesN(<<"4">>) \o <<" ">> \o Paren(<<"8">>)),
       T(YesN(<<>>)),
       T(Yes \o <<" ", "(", "1", "6">>),
       T(Paren(<<"1", "6">>)),
       T(<<"y", "e", "s", " ">> \o Paren(<<"1", "6">>)),
       Some(<<<<" ", "Y", "e">>, <<"s", "(", "0", "7">>, <<")", "\n">>>>) >>
RowList ==
    [k \in 1..Len(ValueCells) |-> R(thStackable, ValueCells[k])]
        \o << R(thOther, T(YesN(<<"1", "6">>))),
              R(None, T(Yes)),
              R(Some(<<<<"S", "t", "a", "c", "k">>, <<" ", "a", "b", "l", "e">>>>),
                T(YesN(<<"7">>))) >>
\* What the request of a detail page may be answered with, apart from a
\* page with status 200.
DetailFailures ==
    {Failed("exception"), Failed("timeout"),
     Response(404, <<<<R(thStackable, T(Yes))>>>>)}

\* Links of a listing page, in one container or split over two.
MaxLinks == 3
LinkList == <<aStick, aInk, aSticks, aEmpty, aBlank, aJE, aJEsplit, aBE, aJEB, aNoHref>>
LinkSet == {LinkList[k] : k \in 1..Len(LinkList)}

\* The variables of a run, at rest.
AtRest ==
    /\ listing_result = "none"
    /\ exc = FALSE
    /\ item_tuples = <<>>
    /\ fut = <<>>
    /\ resp = <<>>
    /\ stack_size = <<>>
    /\ data_lock = 0
    /\ items_data = <<>>
    /\ origin = <<>>
    /\ file = None
    /\ save_pos = 0
    /\ saves = 0
    /\ signals = 0
    /\ kAtSignal = -1

run_vars == <<listing_result, exc, item_tuples, fut, resp, stack_size,
              data_lock, items_data, origin, file, save_pos, saves, signals,
              kAtSignal>>

\* get_stackable_info applied to one response.
InitDetail ==
    /\ pc = "detail"
    /\ \/ \E r \in DetailFailures \cup {Response(HTTP_OK, <<>>)} : input = Some(r)
       \/ \E n \in 0..MaxRows : \E ix \in [1..n -> 1..Len(RowList)] :
             \E k \in 0..(n + 1) :
                input = Some(Response(HTTP_OK, Layout(Drawn(RowList, ix), k)))
    /\ output = None
    /\ AtRest

ApplyDetail ==
    /\ pc = "detail"
    /\ output' = Some(get_stackable_info(input[1]))
    /\ pc' = "detail_done"
    /\ UNCHANGED <<input, run_vars>>

SpecDetail == InitDetail /\ [][ApplyDetail]_vars

\* Lines 95-107 applied to one listing page.
InitListing ==
    /\ pc = "listing"
    /\ \/ input = Some(<<>>)
       \/ \E n \in 0..MaxLinks : \E ix \in [1..n -> 1..Len(LinkList)] :
             \E k \in 0..(n + 1) :
                input = Some(Layout(Drawn(LinkList, ix), k))
    /\ output = None
    /\ AtRest

ApplyListing ==
    /\ pc = "listing"
    /\ output' = Some(extract_candidates(input[1]))
    /\ pc' = "listing_done"
    /\ UNCHANGED <<input, run_vars>>

SpecListing == InitListing /\ [][ApplyListing]_vars

\* ------------------------------------------------------------ the claims

RecordsOf(i) == {k \in 1..Len(items_data) : origin[k] = i}
FailedDetail(i) == resp[i] = "failed"
\* The main thread is on the normal path at or after line 121.
NormalSave == pc \in {"save_data", "dump", "finished"} /\ ~exc
\* get_stackable_info has returned for candidate i.
Returned(i) == fut[i] \in {"sleep", "lock", "append", "release", "finished"}
Dispatched == {i \in Cands : fut[i] # "new"}

\* Some worker can take a step: ENABLED fetch_item_data, written out.
CanStep ==
    \/ \E i \in Cands : fut[i] \in {"get", "sleep", "append", "release"}
    \/ \E i \in Cands : fut[i] = "lock" /\ data_lock = 0
    \/ \E i \in Cands : fut[i] = "pending" /\ Busy < max_workers

\* C1: in a run that completes normally (the listing answered 200, no
\* interruption), when save_data runs items_data holds as many records as
\* there are candidates, and every candidate has contributed exactly one
\* record, carrying its name, whatever each detail request's outcome and the
\* workers' interleaving; the file written at the end holds these records.
C1_TotalAccounting ==
    NormalSave =>
        /\ listing_result = "ok" /\ signals = 0
        /\ Len(items_data) = Len(item_tuples)
        /\ \A i \in Cands : Cardinality(RecordsOf(i)) = 1
        /\ \A k \in 1..Len(items_data) :
              items_data[k].item = item_tuples[origin[k]].name
        /\ pc = "finished" => file = Some(items_data)

\* C1's case: a normal run of four candidates, more than the pool has
\* workers, that completed out of order.
C1_Witness ==
    /\ pc = "finished"
    /\ origin = <<2, 4, 1, 3>>
    /\ file = Some(items_data)

\* C2 (as claimed): when the interruption, the only one of the run, arrived
\* while the main thread waited for the results, exactly K candidates
\* completed, the file written by the handler's save_data holds exactly K
\* records.
C2_SavedExactlyK ==
    (pc = "interrupted" /\ signals = 1 /\ kAtSignal >= 0)
        => Len(file[1]) = kAtSignal

\* C3: when the listing request returns a non-success status or fails, the
\* run ends with no candidate extracted or dispatched, items_data empty,
\* save_data never called and no output file written.
C3_FatalListingFailure ==
    listing_result \in {"status", "exception"} =>
        /\ pc \in {"aborted", "listing_error"}
        /\ item_tuples = <<>>
        /\ Dispatched = {}
        /\ items_data = <<>>
        /\ saves = 0
        /\ file = None

\* C3's case: the listing page answered with a non-200 status.
C3_Witness == pc = "aborted" /\ listing_result = "status"

\* C4: a candidate whose detail request returned a non-200 status, raised or
\* timed out keeps its worker going and gets exactly one record, with its
\* name and stack 1, once the append is done; the pool never stalls while
\* work is left; and on the normal path the final save is reached with
\* every candidate processed.
C4_NonFatalDetailFailure ==
    /\ \A i \in Cands : FailedDetail(i) =>
          /\ Returned(i)
          /\ Cardinality(RecordsOf(i)) =
                IF fut[i] \in {"release", "finished"} THEN 1 ELSE 0
          /\ \A k \in RecordsOf(i) :
                items_data[k] = [item |-> item_tuples[i].name, stack |-> 1]
    /\ (\E i \in Cands : fut[i] \in Running \cup {"pending"}) => CanStep
    /\ NormalSave =>
          \A i \in Cands : fut[i] = "finished" /\ Cardinality(RecordsOf(i)) = 1

\* C4's case: of two candidates the first timed out, the second was read
\* from its page, and the run reached its end with both records saved.
C4_Witness ==
    /\ pc = "finished"
    /\ Len(item_tuples) = 2
    /\ resp = <<"failed", "ok">>
    /\ file = Some(<<[item |-> Stick, stack |-> 1], [item |-> InkSac, stack |-> 16]>>)

\* C5: save_data is called at most once in a run, on the normal path or in
\* the interruption handler, never on both.
C5_SaveAtMostOnce == saves <= 1

\* C5's case: interrupted twice, in the wait for the results and in the wait
\* for the workers, the run saved once, in the handler.
C5_Witness ==
    /\ pc = "interrupted"
    /\ signals = 2
    /\ saves = 1
    /\ Len(file[1]) = 1
    /\ \E i \in Cands : fut[i] = "cancelled"

C7_StackAtLeastOne ==
    \A k \in 1..Len(items_data) : items_data[k].stack >= 1


\* The elements of the sequences of ss, in order.
RECURSIVE Flatten(_)
Flatten(ss) == IF ss = <<>> THEN <<>> ELSE Head(ss) \o Flatten(Tail(ss))

\* The value of a string of decimal digits, from its most significant digit.
RECURSIVE Decimal(_, _)
Decimal(d, acc) ==
    IF d = <<>> THEN acc ELSE Decimal(Tail(d), acc * 10 + DigitVal(Head(d)))

\* The places <<i, j>> of the "(n)" groups of a text: "(" at i, ")" at j,
\* one or more digits and nothing else between them.
Groups(text) ==
    {g \in (1..Len(text)) \X (1..Len(text)) :
        /\ g[1] + 1 < g[2]
        /\ text[g[1]] = "(" /\ text[g[2]] = ")"
        /\ \A k \in (g[1] + 1)..(g[2] - 1) : IsDigit(text[k])}
FirstGroup(text) == CHOOSE g \in Groups(text) : \A h \in Groups(text) : g[1] <= h[1]

HasStackableHeader(row) == row.th # None /\ get_text(row.th[1]) = Stackable
\* The Stackable rows of a page that have a value cell, in document order.
ValuedStackableRows(page) ==
    SelectSeq(Flatten(page), LAMBDA row : HasStackableHeader(row) /\ row.td # None)

\* The stack size C8 states for the value text of the deciding row.
StatedStack(text) ==
    IF ~Contains(text, Yes) THEN 1
    ELSE IF Groups(text) = {} THEN 64
    ELSE LET g == FirstGroup(text)
         IN  Decimal(SubSeq(text, g[1] + 1, g[2] - 1), 0)

DetailFetched == pc = "detail_done" /\ input[1].kind = "response" /\ input[1].status_code = HTTP_OK

\* C8: for a successfully fetched detail page the stack size is 1 when no
\* infobox row has the header "Stackable"; when a Stackable row has a value
\* cell, the first such row decides: the integer of the (first) "(n)" group
\* when its text contains "Yes" and such a group, 64 when it contains "Yes"
\* and no such group, 1 when it does not contain "Yes".
C8_DetailExtractionRule ==
    DetailFetched =>
        LET page == input[1].page
            rows == ValuedStackableRows(page)
        IN  /\ (\A k \in 1..Len(Flatten(page)) : ~HasStackableHeader(Flatten(page)[k]))
                  => output = Some(1)
            /\ rows # <<>> => output = Some(StatedStack(get_text(rows[1].td[1])))

\* C8's case: a Stackable row without a value cell, then, in the next table,
\* the deciding row "Yes (16)": the result is 16.
C8_Witness ==
    /\ DetailFetched
    /\ input[1].page = <<<<R(thStackable, None)>>,
                         <<R(thStackable, T(YesN(<<"1", "6">>)))>>>>
    /\ output = Some(16)

\* The a elements C9 calls links: those with an href.
IsLink(a) == a.href # None
Removed(a) == get_text(a.text) \in {<<>>, JE, BE}
KeptLinks(page) == SelectSeq(Flatten(page), LAMBDA a : IsLink(a) /\ ~Removed(a))

\* C9: the candidate sequence is the sequence of the links of the div-col
\* containers, in document order, without the links whose text is empty,
\* "JE" or "BE" and with every other link: one candidate for each, its name
\* the link's text and its url the origin followed by the href, unsorted and
\* not deduplicated.
C9_ListingFilter ==
    pc = "listing_done" =>
        LET kept == KeptLinks(input[1])
        IN  /\ Len(output[1]) = Len(kept)
            /\ \A k \in 1..Len(kept) :
                  output[1][k] = [name |-> get_text(kept[k].text),
                                  url |-> Origin \o kept[k].href[1]]

\* C9's case: the same link in both containers, an edition marker between
\* them: two candidates with the same url, in document order.
C9_Witness ==
    /\ pc = "listing_done"
    /\ input = Some(<<<<aStick, aJE>>, <<aStick>>>>)
    /\ Len(output[1]) = 2
    /\ output[1][1] = output[1][2]

\* C10 (as claimed): the candidate sequence never holds two candidates with
\* the same url.
C10_DeduplicatedByUrl ==
    pc = "listing_done" =>
        \A j, k \in 1..Len(output[1]) :
            j # k => output[1][j].url # output[1][k].url

\* C10 (amended): the candidate sequence is not deduplicated by url: every
\* url occurs in it as many times as kept links of the page point to it.
C10_OnePerKeptLink ==
    pc = "listing_done" =>
        LET kept == KeptLinks(input[1])
        IN  \A a \in LinkSet : IsLink(a) =>
               Cardinality({k \in 1..Len(output[1]) :
                               output[1][k].url = Origin \o a.href[1]})
                 = Cardinality({k \in 1..Len(kept) : kept[k].href = a.href})

\* C10's case: three kept links, two of them with different texts, point to
\* the same page: three candidates, one url.
C10_Witness ==
    /\ pc = "listing_done"
    /\ Len(output[1]) = 3
    /\ \A k \in 1..3 : output[1][k].url = Origin \o HrefStick
    /\ output[1][1].name # output[1][2].name

\* The candidates whose worker is inside the with block of lines 78-79.
InCritical == {i \in Cands : fut[i] \in {"append", "release"}}
\* The candidates whose append (line 79) has returned.
Appended == {i \in Cands : fut[i] \in {"release", "finished"}}

\* C11: at most one worker is inside the append critical section at a time,
\* and it is the holder of data_lock; every fetch_item_data whose append has
\* returned has added exactly one record and no other has added any, so that
\* after n appends items_data holds exactly n records, whatever the
\* interleaving.
C11_NoLostUpdates ==
    /\ Cardinality(InCritical) <= 1
    /\ \A i \in Cands : i \in InCritical <=> data_lock = i
    /\ data_lock = 0 <=> InCritical = {}
    /\ \A i \in Cands :
          Cardinality(RecordsOf(i)) = IF i \in Appended THEN 1 ELSE 0
    /\ Len(items_data) = Cardinality(Appended)

\* C11's case: three workers at line 78 together: one has appended and
\* still holds the lock, the two others wait for it, and the record of a
\* fourth candidate is already there.
C11_Witness ==
    /\ Len(items_data) = 2
    /\ \E i, j, k \in Cands :
          /\ j # k
          /\ fut[i] = "release" /\ data_lock = i
          /\ fut[j] = "lock" /\ fut[k] = "lock"

\* The KeyboardInterrupt is on its way from the with block to the handler
\* of line 116.
Propagating == exc /\ pc = "shutdown"
\* The handler of line 116 is about to call save_data (line 118).
HandlerSave == exc /\ pc = "save_data"

\* C12 (as claimed): once an interruption has been observed in the wait for
\* the results, the main thread is never held back by a worker still in
\* flight, and the handler calls save_data with items_data as it was when
\* the interruption arrived.
C12_ImmediateSave ==
    /\ (Propagating /\ kAtSignal >= 0) => Joined
    /\ (HandlerSave /\ signals = 1 /\ kAtSignal >= 0) =>
          Len(items_data) = kAtSignal

IsPrefix(s, t) == Len(s) <= Len(t) /\ SubSeq(t, 1, Len(s)) = s
\* save_data has returned: the file is written.
Saved == pc \in {"finished", "interrupted"}

NotPickedUp(i) == fut[i] \in {"new", "pending"}

\* C14 (as claimed): once an interruption has been observed during the
\* processing, no candidate that no worker had picked up is submitted or
\* started any more, and the run that ends interrupted has executed
\* save_data, once, and written the file.
C14_SaveWithoutNewStarts ==
    /\ [](pc = "interrupted" => saves = 1 /\ file # None)
    /\ [][exc => \A i \in Cands :
                    NotPickedUp(i) => fut'[i] \in {"new", "pending", "cancelled"}]_vars

\* The candidates being processed: from the start of get_stackable_info to
\* the append of the record.
InProcess == {i \in Cands : fut[i] \in {"get", "sleep", "lock", "append"}}

\* C15: at most 3 candidates are being processed at the same time, the
\* candidates whose worker has not returned yet included, and a candidate is
\* only started by a step that finds fewer than 3 of them running.
C15_BoundedConcurrency ==
    /\ [](Cardinality(InProcess) <= 3 /\ Busy <= 3)
    /\ [][\A i \in Cands :
             (fut[i] = "pending" /\ fut'[i] = "get") => Busy < 3]_vars

\* C15's case: three candidates are in process, their requests in flight,
\* and the fourth waits in the queue while the main thread waits for the
\* results.
C15_Witness ==
    /\ pc = "map_results"
    /\ Len(item_tuples) = 4
    /\ \A i \in 1..3 : fut[i] = "get"
    /\ fut[4] = "pending"

\* The run has ended: Done, Interrupted, aborted at line 90, or ended by an
\* exception nothing caught.
Terminated ==
    pc \in {"finished", "interrupted", "aborted", "listing_error", "crashed"}
\* The main thread can take its next step without anything arriving from
\* outside: it does not wait, or what it waits for is there.
MainCanStep ==
    \/ pc \in {"get_listing", "map_submit", "save_data", "dump"}
    \/ pc = "map_results" /\ \A i \in Cands : fut[i] = "finished"
    \/ pc = "shutdown" /\ Joined

\* C16 (as claimed): no request waits without bound, the listing request no
\* more than a detail request: the main thread is never left in a request a
\* silent server does not answer, and a run in which neither the main
\* thread nor a worker can go on has terminated.
C16_BoundedWaits ==
    /\ pc # "blocked"
    /\ (~MainCanStep /\ ~CanStep) => Terminated

\* The step in which the worker of candidate i goes from phase p to phase q
\* of fetch_item_data.
Moves(i, p, q) == fut[i] = p /\ fut'[i] = q
Enters(i, q) == fut[i] # q /\ fut'[i] = q

\* C17: for every candidate, whether its request succeeded or failed, the
\* delay is entered by the step in which get_stackable_info returns the
\* stack size, the wait for the lock and then the append come only after
\* the delay has been taken, and a record is added to items_data only by
\* the append of a worker that has taken the delay, for its candidate.
C17_DelayBeforeAppend ==
    [][/\ fut' # fut => \A i \in Cands :
            /\ Enters(i, "sleep") =>
                  /\ Moves(i, "get", "sleep")
                  /\ resp[i] = "none" /\ resp'[i] \in {"ok", "failed"}
                  /\ resp'[i] = "failed" => stack_size'[i] = DefaultStack
            /\ Enters(i, "lock") => Moves(i, "sleep", "lock")
            /\ Enters(i, "append") => Moves(i, "lock", "append")
            /\ Enters(i, "release") => Moves(i, "append", "release")
       /\ items_data' # items_data =>
             \E i \in Cands :
                /\ Moves(i, "append", "release")
                /\ items_data' = Append(items_data, item_entry(i))
                /\ origin' = Append(origin, i)]_vars

\* C17's case: of two candidates the first, whose request failed, is taking
\* the delay, no record of it appended yet, while the second one, read from
\* its page, has taken it and has its record appended.
C17_Witness ==
    /\ Len(item_tuples) = 2
    /\ resp = <<"failed", "ok">>
    /\ fut = <<"sleep", "finished">>
    /\ stack_size[1] = 1
    /\ origin = <<2>>

\* C18: every step leaves items_data as it is or adds one record at its
\* end: the records it holds are never modified, reordered or removed, its
\* earlier value is a prefix of its later value and its length never
\* decreases; save_data reads it and leaves it as it is.
C18_AppendOnly ==
    [][/\ IsPrefix(items_data, items_data')
       /\ Len(items_data') <= Len(items_data) + 1
       /\ pc \in {"save_data", "dump"} /\ pc' # pc => items_data' = items_data
       /\ file' # file => items_data' = items_data]_vars

\* C18's case: json.dump has written the first of three records, which
\* came in another order than the candidates, and items_data still holds
\* the three.
C18_Witness ==
    /\ pc = "dump"
    /\ save_pos = 1
    /\ origin = <<3, 1, 2>>
    /\ file = Some(<<items_data[1]>>)

====
